---- MODULE Spec2Model ----
(***************************************************************************)
(* Model of app.py, the elderly-patient health dashboard: the generator of *)
(* synthetic vitals, the static reference tables, and the top-to-bottom    *)
(* script that renders them through Streamlit and Plotly.                  *)
(*                                                                         *)
(* Numbers with one decimal are kept as integers in tenths (75.0 -> 750).  *)
(* A datetime is [day, sec, us]: proleptic ordinal day, second of the day, *)
(* microsecond, normalised the way datetime arithmetic normalises it.      *)
(***************************************************************************)
EXTENDS Integers, Sequences, FiniteSets, TLC

VARIABLES
    clock,                \* the system clock read by datetime.now()
    np_random,            \* state of numpy's global RandomState
    pc,                   \* position of the script
    exc,                  \* unhandled exception that ended the script, or "none"
    vitals_df,            \* module global vitals_df
    latest_vital,         \* module global latest_vital
    figs,                 \* fig1..fig10, in the order they are built
    page,                 \* what Streamlit has been asked to render, in order
    n_generate,           \* calls of generate_sample_vitals made by the script
    medical_conditions,   \* module global (dict, insertion ordered)
    medication_schedule,  \* module global (list of dicts)
    patient_profile,      \* module global (dict, insertion ordered)
    th,                   \* per caller: frame of a running generate_sample_vitals
    returned              \* per caller: the series its calls returned

vars == <<clock, np_random, pc, exc, vitals_df, latest_vital, figs, page,
          n_generate, medical_conditions, medication_schedule, patient_profile,
          th, returned>>

scriptVars == <<pc, exc, vitals_df, latest_vital, figs, page, n_generate>>
staticVars == <<medical_conditions, medication_schedule, patient_profile>>
callerVars == <<th, returned>>

----------------------------------------------------------------------------
(* Bounds of the model *)

MaxSeed == 1        \* initial states of the random generator: 0..MaxSeed
MaxTicks == 1       \* clock advances explored while the callers run

----------------------------------------------------------------------------
(* datetime and timedelta *)

SecondsPerHour == 3600
SecondsPerDay == 24 * SecondsPerHour

\* MinusHours without the carry into the day
MinusHoursNoCarry(d, h) ==
    [day |-> d.day, sec |-> (d.sec - h * SecondsPerHour) % (24 * SecondsPerHour),
     us |-> d.us]

\* datetime - timedelta(hours=h): the seconds are taken off the second of the
\* day and the carry goes to the day (divmod normalisation)
MinusHours(d, h) ==
    LET secs == d.sec - h * SecondsPerHour
    IN  [day |-> d.day + (secs \div SecondsPerDay), sec |-> secs % SecondsPerDay,
         us |-> d.us]

\* datetime comparison: lexicographic on (day, sec, us)
Before(a, b) ==
    \/ a.day < b.day
    \/ a.day = b.day /\ a.sec < b.sec
    \/ a.day = b.day /\ a.sec = b.sec /\ a.us < b.us

\* (b - a).total_seconds(), for datetimes with equal microseconds
SecondsBetween(a, b) == (b.day - a.day) * SecondsPerDay + (b.sec - a.sec)

\* readings of datetime.now() the model starts from:
\* 2024-01-01T12:00:00, 2024-01-01T00:30:00.250000, 2023-12-31T23:59:59
Clocks ==
    { [day |-> 738886, sec |-> 12 * SecondsPerHour, us |-> 0],
      [day |-> 738886, sec |-> 1800, us |-> 250000],
      [day |-> 738885, sec |-> SecondsPerDay - 1, us |-> 0] }

----------------------------------------------------------------------------
(* numpy's global random generator *)

\* The generator is a deterministic function of its hidden state, advanced by
\* every deviate drawn.  The model keeps that shape with a small state whose
\* period (256) is longer than the 240 deviates two calls draw, so no state
\* recurs within the calls modelled.  Nothing is concluded from the values of
\* a series about the state they were drawn from.
RngMod == 257

RngNext(s) == (3 * s + 7) % RngMod

\* standard normal deviate delivered in state s, in hundredths: a multiple of
\* 0.04 in -2.56..2.56, so that no loc + scale * z of lines 11-15 lies half way
\* between two tenths, where the rounding of the binary double would decide
Gauss(s) == (((s * 37) % RngMod) \div 2) * 4 - 256

\* ndarray.round(1), rint(x * 10) / 10: a value in thousandths to tenths; a
\* half that is exact in binary (x.25, x.75) goes to the even tenth
Round1(x) ==
    LET q == x \div 100
        r == x % 100
    IN  IF r < 50 THEN q
        ELSE IF r > 50 THEN q + 1
        ELSE IF q % 2 = 0 THEN q ELSE q + 1

RECURSIVE Draws(_, _, _, _)
\* size deviates loc + scale * z from state s on, before rounding (thousandths)
Draws(s, loc, scale, size) ==
    IF size <= 0 THEN <<>>
    ELSE <<loc * 100 + scale * Gauss(s)>> \o Draws(RngNext(s), loc, scale, size - 1)

RECURSIVE Advance(_, _)
Advance(s, n) == IF n <= 0 THEN s ELSE Advance(RngNext(s), n - 1)

\* np.random.normal(loc, scale, size).round(1) with loc and scale in tenths:
\* the array drawn and the state the global generator is left in
normal(s, loc, scale, size) ==
    LET raw == Draws(s, loc, scale, size)
    IN  [arr |-> [i \in 1..Len(raw) |-> Round1(raw[i])], rng |-> Advance(s, size)]

----------------------------------------------------------------------------
(* pandas DataFrame: index is the number of rows, data maps a column name *)
(* to the sequence of its values                                          *)

Vitals5 == {"Heart Rate (BPM)", "Systolic BP (mmHg)", "Diastolic BP (mmHg)",
            "SpO2 (%)", "Temperature (F)"}
AllColumns == {"Timestamp"} \cup Vitals5

NoFrame == [index |-> 0, data |-> <<>>]
NoRow == <<>>

\* pd.DataFrame(dict of arrays) raises ValueError unless all lengths agree
SameLength(cols) == \A c, d \in DOMAIN cols : Len(cols[c]) = Len(cols[d])

DataFrame(cols) ==
    [index |-> IF DOMAIN cols = {} THEN 0
               ELSE Len(cols[CHOOSE c \in DOMAIN cols : TRUE]),
     data |-> cols]

columns(df) == DOMAIN df.data

\* DataFrame.empty: any axis of length 0
empty(df) == df.index = 0 \/ columns(df) = {}

\* df.iloc[i] for i >= 0 counted from 1 here; the row as column -> value
Row(df, i) == [c \in columns(df) |-> df.data[c][i]]

\* df[df[col] == value]: the rows selected by the boolean mask, in order
RECURSIVE Keep(_, _, _)
Keep(values, mask, i) ==
    IF i > Len(values) THEN <<>>
    ELSE (IF mask[i] THEN <<values[i]>> ELSE <<>>) \o Keep(values, mask, i + 1)

WhereEquals(df, col, value) ==
    LET mask == [i \in 1..df.index |-> df.data[col][i] = value]
    IN  DataFrame([c \in columns(df) |-> Keep(df.data[c], mask, 1)])

----------------------------------------------------------------------------
(* generate_sample_vitals *)

\* Size with one draw too few
SizeShort == 24 - 1

RangeStart == 23    \* range(23, -1, -1)
RangeStop == -1
Size == 24          \* size=24 of every np.random.normal call

\* list(range(start, stop, -1))
RangeDown(start, stop) ==
    [k \in 1..(IF start > stop THEN start - stop ELSE 0) |-> start - (k - 1)]

\* [now - timedelta(hours=i) for i in range(23, -1, -1)]
time_range(now) ==
    LET hours == RangeDown(RangeStart, RangeStop)
    IN  [k \in 1..Len(hours) |-> MinusHours(now, hours[k])]

\* lines 11-15: each draw, from the state s it finds the global generator in
heart_rate(s) == normal(s, 750, 50, Size)
systolic(s) == normal(s, 1200, 100, Size)
diastolic(s) == normal(s, 800, 50, Size)
spo2(s) == normal(s, 980, 10, Size)
temperature(s) == normal(s, 986, 5, Size)

\* the dict handed to pd.DataFrame by the return statement
VitalsColumns(tr, hr, sy, di, sp, te) ==
    [c \in AllColumns |->
        CASE c = "Timestamp" -> tr
          [] c = "Heart Rate (BPM)" -> hr
          [] c = "Systolic BP (mmHg)" -> sy
          [] c = "Diastolic BP (mmHg)" -> di
          [] c = "SpO2 (%)" -> sp
          [] c = "Temperature (F)" -> te]

\* VitalsFrame that drops the rows whose SpO2 is above 100 %
VitalsFrameDroppingRows(cols) ==
    LET mask == [i \in 1..Len(cols["SpO2 (%)"]) |-> cols["SpO2 (%)"][i] <= 1000]
    IN  DataFrame([c \in DOMAIN cols |-> Keep(cols[c], mask, 1)])

\* pd.DataFrame({...}) of the return statement
VitalsFrame(cols) == DataFrame(cols)

\* one whole call that read `now` from the clock and found the global
\* generator in state s: the columns, and the state the generator is left in
generate_sample_vitals(now, s) ==
    LET hr == heart_rate(s)
        sy == systolic(hr.rng)
        di == diastolic(sy.rng)
        sp == spo2(di.rng)
        te == temperature(sp.rng)
    IN  [cols |-> VitalsColumns(time_range(now), hr.arr, sy.arr, di.arr, sp.arr, te.arr),
         rng |-> te.rng]

----------------------------------------------------------------------------
(* Static data *)

MedicalConditions ==
    << <<"Diabetes", 1>>, <<"Hypertension", 1>>, <<"Arthritis", 0>>,
       <<"Asthma", 0>>, <<"Heart Disease", 1>>, <<"Others", 0>> >>

MedicationSchedule ==
    << [Medicine |-> "Aspirin", Dosage |-> "75mg", Time |-> "8:00 AM"],
       [Medicine |-> "Metformin", Dosage |-> "500mg", Time |-> "12:00 PM"],
       [Medicine |-> "Atorvastatin", Dosage |-> "10mg", Time |-> "8:00 PM"] >>

\* a value is tagged with its Python type: [str |-> ...] or [int |-> ...]
PatientProfile ==
    << <<"Name", [str |-> "John Doe"]>>, <<"Age", [int |-> 72]>>,
       <<"Gender", [str |-> "Male"]>>, <<"Blood Group", [str |-> "B+"]>>,
       <<"Allergies", [str |-> "None"]>>,
       <<"Emergency Contact", [str |-> "Jane Doe (+1234567890)"]>>,
       <<"Address", [str |-> "123 Elderly Lane, Healthville"]>>,
       <<"Assigned Doctor", [str |-> "Dr. Smith, General Medicine"]>> >>

----------------------------------------------------------------------------
(* Presentation layer: what Streamlit and Plotly are handed *)

\* str() of a float with one decimal, from its value in tenths
Fmt1(v) ==
    IF v < 0 THEN "-" \o ToString((0 - v) \div 10) \o "." \o ToString((0 - v) % 10)
    ELSE ToString(v \div 10) \o "." \o ToString(v % 10)

\* str() of a profile value
Str(v) == IF "int" \in DOMAIN v THEN ToString(v.int) ELSE v.str

\* one call on a Streamlit container
Element(kind, container, body) == [kind |-> kind, in |-> container, body |-> body]

Emit(elements) == page' = page \o elements

\* an unhandled exception ends the script where it is raised
Raise(e) == pc' = "crashed" /\ exc' = e

\* the px.* calls of fig1..fig10: chart type, column arguments, title
FigSpecs ==
    << [type |-> "line", title |-> "Heart Rate Over Time",
        args |-> [x |-> <<"Timestamp">>, y |-> <<"Heart Rate (BPM)">>]],
       [type |-> "line", title |-> "Blood Pressure Over Time",
        args |-> [x |-> <<"Timestamp">>,
                  y |-> <<"Systolic BP (mmHg)", "Diastolic BP (mmHg)">>]],
       [type |-> "line", title |-> "SpO2 Over Time",
        args |-> [x |-> <<"Timestamp">>, y |-> <<"SpO2 (%)">>]],
       [type |-> "line", title |-> "Body Temperature Over Time",
        args |-> [x |-> <<"Timestamp">>, y |-> <<"Temperature (F)">>]],
       [type |-> "bar", title |-> "Heart Rate Distribution",
        args |-> [x |-> <<"Timestamp">>, y |-> <<"Heart Rate (BPM)">>]],
       [type |-> "area", title |-> "Temperature Area Chart",
        args |-> [x |-> <<"Timestamp">>, y |-> <<"Temperature (F)">>]],
       [type |-> "scatter", title |-> "Blood Pressure Scatter Plot",
        args |-> [x |-> <<"Systolic BP (mmHg)">>, y |-> <<"Diastolic BP (mmHg)">>,
                  size |-> <<"Heart Rate (BPM)">>, color |-> <<"SpO2 (%)">>]],
       [type |-> "histogram", title |-> "Heart Rate Histogram",
        args |-> [x |-> <<"Heart Rate (BPM)">>]],
       [type |-> "box", title |-> "Temperature Box Plot",
        args |-> [y |-> <<"Temperature (F)">>]],
       [type |-> "scatter_matrix", title |-> "Vitals Scatter Matrix",
        args |-> [dimensions |-> <<"Heart Rate (BPM)", "Systolic BP (mmHg)",
                                   "Diastolic BP (mmHg)", "SpO2 (%)">>]] >>

\* the container each of fig1..fig10 is rendered in
ChartSlots == <<"r1c1", "r1c2", "r2c1", "r2c2", "r3c1", "r3c2",
                "r4c1", "r4c2", "r5c1", "r5c2">>

\* the columns a px call names
ColumnsUsed(args) == UNION { {args[a][i] : i \in DOMAIN args[a]} : a \in DOMAIN args }

\* a px call raises ValueError when it names a column the frame lacks
PxAccepts(df, args) == ColumnsUsed(args) \subseteq columns(df)

\* the figure a px call builds: the values of the columns it names
PxFigure(df, spec) ==
    [type |-> spec.type, title |-> spec.title, args |-> spec.args,
     data |-> [c \in ColumnsUsed(spec.args) |-> df.data[c]]]

\* pd.DataFrame.from_dict(d, orient='index', columns=['Has Condition'])
\*   .reset_index().rename(columns={'index': 'Condition'})
ConditionFrame(d) ==
    DataFrame([c \in {"Condition", "Has Condition"} |->
                  IF c = "Condition" THEN [i \in DOMAIN d |-> d[i][1]]
                  ELSE [i \in DOMAIN d |-> d[i][2]]])

\* px.pie(frame, names='Condition', title=...)
PieFigure(df) ==
    [type |-> "pie", title |-> "Existing Medical Conditions",
     args |-> [names |-> <<"Condition">>],
     data |-> [c \in {"Condition"} |-> df.data[c]]]

\* pd.DataFrame(list of dicts): one column per key, one row per dict
RecordsFrame(records) ==
    DataFrame([c \in (IF records = <<>> THEN {} ELSE DOMAIN records[1]) |->
                  [i \in DOMAIN records |-> records[i][c]]])

----------------------------------------------------------------------------
(* The script, top to bottom *)

\* iloc_last reading the first row, as df.iloc[0] would
iloc_first(df) == Row(df, 1)

\* df.iloc[-1]: the last row (IndexError on a frame with no rows)
iloc_last(df) == Row(df, df.index)

\* the labels each of the four st.metric calls of lines 69-72 subscripts, in
\* the order the f-string reads them
MetricLabels ==
    << <<"Heart Rate (BPM)">>,
       <<"Systolic BP (mmHg)", "Diastolic BP (mmHg)">>,
       <<"SpO2 (%)">>,
       <<"Temperature (F)">> >>

\* the k-th st.metric call on a row that has its labels
MetricElement(row, k) ==
    CASE k = 1 -> Element("metric", "col1",
                          [label |-> "Heart Rate",
                           value |-> Fmt1(row["Heart Rate (BPM)"]) \o " BPM"])
      [] k = 2 -> Element("metric", "col2",
                          [label |-> "Blood Pressure",
                           value |-> Fmt1(row["Systolic BP (mmHg)"]) \o "/"
                                     \o Fmt1(row["Diastolic BP (mmHg)"]) \o " mmHg"])
      [] k = 3 -> Element("metric", "col3",
                          [label |-> "SpO2", value |-> Fmt1(row["SpO2 (%)"]) \o " %"])
      [] k = 4 -> Element("metric", "col4",
                          [label |-> "Temperature",
                           value |-> Fmt1(row["Temperature (F)"]) \o " F"])

\* whether the k-th call finds every label it subscripts (KeyError otherwise)
MetricHasLabels(row, k) ==
    \A i \in DOMAIN MetricLabels[k] : MetricLabels[k][i] \in DOMAIN row

\* the calls made before the first one that raises: the metrics run one after
\* the other, so those before the first missing label are on the page
MetricsDone(row) ==
    IF \A k \in DOMAIN MetricLabels : MetricHasLabels(row, k)
    THEN Len(MetricLabels)
    ELSE (CHOOSE k \in DOMAIN MetricLabels :
             /\ ~MetricHasLabels(row, k)
             /\ \A j \in 1..(k - 1) : MetricHasLabels(row, j)) - 1

\* the st.metric calls of lines 69-72 that complete on the row
MetricElements(row) == [k \in 1..MetricsDone(row) |-> MetricElement(row, k)]

\* PieInput with the flag inverted
PieInputAbsent(d) == WhereEquals(ConditionFrame(d), "Has Condition", 0)

\* the frame handed to px.pie: condition_df[condition_df['Has Condition'] == 1]
PieInput(d) == WhereEquals(ConditionFrame(d), "Has Condition", 1)

\* st.markdown(f"**{key}:** {value}") for every item of the profile
ProfileElements(profile) ==
    [i \in DOMAIN profile |->
        Element("markdown", "main",
                "**" \o profile[i][1] \o ":** " \o Str(profile[i][2]))]

\* the checks of the try block: the message of the first failing assert
CheckedColumns == {"Heart Rate (BPM)", "Systolic BP (mmHg)",
                   "Diastolic BP (mmHg)", "SpO2 (%)"}

IntegrityCheck(df) ==
    IF empty(df) THEN "Vitals data is missing."
    ELSE IF ~(CheckedColumns \subseteq columns(df)) THEN "Missing vital sign columns."
    ELSE "ok"

\* lines 55-56
SetPage ==
    /\ pc = "start"
    /\ Emit(<<Element("page_config", "main", "Elderly Health Monitor"),
              Element("title", "main", "Elderly Patient Health Dashboard")>>)
    /\ pc' = "generate"
    /\ UNCHANGED <<clock, np_random, exc, vitals_df, latest_vital, figs,
                   n_generate, staticVars, callerVars>>

\* line 58
Generate ==
    /\ pc = "generate"
    /\ LET r == generate_sample_vitals(clock, np_random)
       IN  /\ np_random' = r.rng
           /\ n_generate' = n_generate + 1
           /\ IF SameLength(r.cols)
              THEN vitals_df' = VitalsFrame(r.cols) /\ pc' = "latest" /\ exc' = exc
              ELSE vitals_df' = vitals_df /\ Raise("ValueError")
    /\ UNCHANGED <<clock, latest_vital, figs, page, staticVars, callerVars>>

\* line 59
Latest ==
    /\ pc = "latest"
    /\ IF vitals_df.index = 0
       THEN Raise("IndexError") /\ latest_vital' = latest_vital
       ELSE latest_vital' = iloc_last(vitals_df) /\ pc' = "profile" /\ exc' = exc
    /\ UNCHANGED <<clock, np_random, vitals_df, figs, page, n_generate,
                   staticVars, callerVars>>

\* lines 62-64
Profile ==
    /\ pc = "profile"
    /\ Emit(<<Element("header", "main", "Patient Profile")>>
            \o ProfileElements(patient_profile))
    /\ pc' = "metrics"
    /\ UNCHANGED <<clock, np_random, exc, vitals_df, latest_vital, figs,
                   n_generate, staticVars, callerVars>>

\* lines 67-72: the header and every metric before the first subscript that
\* raises are on the page when KeyError ends the script
Metrics ==
    /\ pc = "metrics"
    /\ Emit(<<Element("header", "main", "Real-time Vitals")>>
            \o MetricElements(latest_vital))
    /\ IF MetricsDone(latest_vital) = Len(MetricLabels)
       THEN pc' = "history" /\ exc' = exc
       ELSE Raise("KeyError")
    /\ UNCHANGED <<clock, np_random, vitals_df, latest_vital, figs, n_generate,
                   staticVars, callerVars>>

\* lines 75-79
History ==
    /\ pc = "history"
    /\ Emit(<<Element("header", "main", "Medical History"),
              Element("plotly_chart", "main", PieFigure(PieInput(medical_conditions)))>>)
    /\ pc' = "medication"
    /\ UNCHANGED <<clock, np_random, exc, vitals_df, latest_vital, figs,
                   n_generate, staticVars, callerVars>>

\* lines 82-84
Medication ==
    /\ pc = "medication"
    /\ Emit(<<Element("header", "main", "Medication Schedule"),
              Element("table", "main", RecordsFrame(medication_schedule))>>)
    /\ pc' = "trend"
    /\ UNCHANGED <<clock, np_random, exc, vitals_df, latest_vital, figs,
                   n_generate, staticVars, callerVars>>

\* line 87
TrendHeader ==
    /\ pc = "trend"
    /\ Emit(<<Element("header", "main", "Vitals Trend (Last 24 Hours)")>>)
    /\ pc' = "figs"
    /\ UNCHANGED <<clock, np_random, exc, vitals_df, latest_vital, figs,
                   n_generate, staticVars, callerVars>>

\* FigFrame that generates a series of its own for every chart
FigFrameFresh(k) == VitalsFrame(generate_sample_vitals(clock, Advance(np_random, k)).cols)

\* the frame a px call of lines 89-101 is handed
FigFrame(k) == vitals_df

\* lines 89-101, one px call at a time: fig1 .. fig10
BuildFig ==
    /\ pc = "figs"
    /\ LET k == Len(figs) + 1
       IN  IF PxAccepts(FigFrame(k), FigSpecs[k].args)
           THEN /\ figs' = Append(figs, PxFigure(FigFrame(k), FigSpecs[k]))
                /\ pc' = IF k = Len(FigSpecs) THEN "charts" ELSE "figs"
                /\ exc' = exc
           ELSE figs' = figs /\ Raise("ValueError")
    /\ UNCHANGED <<clock, np_random, vitals_df, latest_vital, page, n_generate,
                   staticVars, callerVars>>

\* the st.plotly_chart calls made on the chart slots so far
ChartsRendered ==
    Cardinality({i \in DOMAIN page : page[i].kind = "plotly_chart"
                                     /\ page[i].in # "main"})

\* lines 103-121, one st.plotly_chart call at a time
RenderChart ==
    /\ pc = "charts"
    /\ LET k == ChartsRendered + 1
       IN  /\ Emit(<<Element("plotly_chart", ChartSlots[k], figs[k])>>)
           /\ pc' = IF k = Len(ChartSlots) THEN "check" ELSE "charts"
    /\ UNCHANGED <<clock, np_random, exc, vitals_df, latest_vital, figs,
                   n_generate, staticVars, callerVars>>

\* lines 124-128: a failed assert is caught and shown with st.error
ErrorHandling ==
    /\ pc = "check"
    /\ LET msg == IntegrityCheck(vitals_df)
       IN  IF msg = "ok" THEN page' = page
           ELSE Emit(<<Element("error", "main", "Data Error: " \o msg)>>)
    /\ pc' = "footer"
    /\ UNCHANGED <<clock, np_random, exc, vitals_df, latest_vital, figs,
                   n_generate, staticVars, callerVars>>

\* lines 131-132
Footer ==
    /\ pc = "footer"
    /\ Emit(<<Element("markdown", "main", "---"),
              Element("markdown", "main",
                      "*Developed for remote elderly patient health tracking.*")>>)
    /\ pc' = "done"
    /\ UNCHANGED <<clock, np_random, exc, vitals_df, latest_vital, figs,
                   n_generate, staticVars, callerVars>>

NoCallers == <<>>

Init ==
    /\ clock \in Clocks
    /\ np_random \in 0..MaxSeed
    /\ pc = "start"
    /\ exc = "none"
    /\ vitals_df = NoFrame
    /\ latest_vital = NoRow
    /\ figs = <<>>
    /\ page = <<>>
    /\ n_generate = 0
    /\ medical_conditions = MedicalConditions
    /\ medication_schedule = MedicationSchedule
    /\ patient_profile = PatientProfile
    /\ th = NoCallers
    /\ returned = NoCallers

Next ==
    \/ SetPage
    \/ Generate
    \/ Latest
    \/ Profile
    \/ Metrics
    \/ History
    \/ Medication
    \/ TrendHeader
    \/ BuildFig
    \/ RenderChart
    \/ ErrorHandling
    \/ Footer

Spec == Init /\ [][Next]_vars

----------------------------------------------------------------------------
(* generate_sample_vitals called by concurrent sessions of the dashboard:  *)
(* every session runs the script in its own thread of one process, so the  *)
(* callers have their own locals and share the clock and np.random.        *)
(* A run of the script calls the generator once (line 58), so each caller  *)
(* makes one call; its frame is stepped statement by statement.            *)

Callers == {1, 2}

\* datetime + timedelta(seconds=n)
PlusSeconds(d, n) ==
    LET secs == d.sec + n
    IN  [day |-> d.day + (secs \div SecondsPerDay), sec |-> secs % SecondsPerDay,
         us |-> d.us]

IdleFrame ==
    [pc |-> "idle", now |-> <<>>, time_range |-> <<>>,
     heart_rate |-> <<>>, systolic |-> <<>>, diastolic |-> <<>>, spo2 |-> <<>>,
     temperature |-> <<>>]

\* the clock moves on; only line 9 reads it, so its advances are taken where
\* a caller is about to read it
Tick ==
    /\ \E t \in Callers : th[t].pc = "idle"
    /\ \E c0 \in Clocks : SecondsBetween(c0, clock) \in 0..(MaxTicks - 1)
    /\ clock' = PlusSeconds(clock, 1)
    /\ UNCHANGED <<np_random, scriptVars, staticVars, callerVars>>

\* line 9: now = datetime.now()
ReadNow(t) ==
    /\ th[t].pc = "idle"
    /\ th' = [th EXCEPT ![t].pc = "time_range", ![t].now = clock]
    /\ UNCHANGED <<clock, np_random, scriptVars, staticVars, returned>>

\* ComputeTimeRange with time_range kept in a global every caller's frame sees
ComputeTimeRangeShared(t) ==
    /\ th[t].pc = "time_range"
    /\ th' = [u \in Callers |->
                 IF u = t
                 THEN [th[u] EXCEPT !.pc = "heart_rate",
                                    !.time_range = time_range(th[t].now)]
                 ELSE [th[u] EXCEPT !.time_range = time_range(th[t].now)]]
    /\ UNCHANGED <<clock, np_random, scriptVars, staticVars, returned>>

\* line 10
ComputeTimeRange(t) ==
    /\ th[t].pc = "time_range"
    /\ th' = [th EXCEPT ![t].pc = "heart_rate",
                        ![t].time_range = time_range(th[t].now)]
    /\ UNCHANGED <<clock, np_random, scriptVars, staticVars, returned>>

\* line 11
DrawHeartRate(t) ==
    /\ th[t].pc = "heart_rate"
    /\ LET r == heart_rate(np_random)
       IN  /\ th' = [th EXCEPT ![t].pc = "systolic", ![t].heart_rate = r.arr]
           /\ np_random' = r.rng
    /\ UNCHANGED <<clock, scriptVars, staticVars, returned>>

\* line 12
DrawSystolic(t) ==
    /\ th[t].pc = "systolic"
    /\ LET r == systolic(np_random)
       IN  /\ th' = [th EXCEPT ![t].pc = "diastolic", ![t].systolic = r.arr]
           /\ np_random' = r.rng
    /\ UNCHANGED <<clock, scriptVars, staticVars, returned>>

\* line 13
DrawDiastolic(t) ==
    /\ th[t].pc = "diastolic"
    /\ LET r == diastolic(np_random)
       IN  /\ th' = [th EXCEPT ![t].pc = "spo2", ![t].diastolic = r.arr]
           /\ np_random' = r.rng
    /\ UNCHANGED <<clock, scriptVars, staticVars, returned>>

\* line 14
DrawSpo2(t) ==
    /\ th[t].pc = "spo2"
    /\ LET r == spo2(np_random)
       IN  /\ th' = [th EXCEPT ![t].pc = "temperature", ![t].spo2 = r.arr]
           /\ np_random' = r.rng
    /\ UNCHANGED <<clock, scriptVars, staticVars, returned>>

\* line 15
DrawTemperature(t) ==
    /\ th[t].pc = "temperature"
    /\ LET r == temperature(np_random)
       IN  /\ th' = [th EXCEPT ![t].pc = "return", ![t].temperature = r.arr]
           /\ np_random' = r.rng
    /\ UNCHANGED <<clock, scriptVars, staticVars, returned>>

\* lines 17-24: the frame is built from the locals and handed to the caller
\* (pd.DataFrame raises ValueError on columns of unequal length)
Return(t) ==
    /\ th[t].pc = "return"
    /\ LET f == th[t]
           cols == VitalsColumns(f.time_range, f.heart_rate, f.systolic,
                                 f.diastolic, f.spo2, f.temperature)
       IN  IF SameLength(cols)
           THEN /\ returned' = Append(returned,
                                      [caller |-> t, now |-> f.now,
                                       df |-> VitalsFrame(cols)])
                /\ th' = [th EXCEPT ![t].pc = "returned"]
           ELSE /\ returned' = returned
                /\ th' = [th EXCEPT ![t].pc = "raised"]
    /\ UNCHANGED <<clock, np_random, scriptVars, staticVars>>

InitGen ==
    /\ clock \in Clocks
    /\ np_random \in 0..MaxSeed
    /\ pc = "start"
    /\ exc = "none"
    /\ vitals_df = NoFrame
    /\ latest_vital = NoRow
    /\ figs = <<>>
    /\ page = <<>>
    /\ n_generate = 0
    /\ medical_conditions = MedicalConditions
    /\ medication_schedule = MedicationSchedule
    /\ patient_profile = PatientProfile
    /\ th = [t \in Callers |-> IdleFrame]
    /\ returned = <<>>

NextGen ==
    \/ Tick
    \/ \E t \in Callers :
          \/ ReadNow(t)
          \/ ComputeTimeRange(t)
          \/ DrawHeartRate(t)
          \/ DrawSystolic(t)
          \/ DrawDiastolic(t)
          \/ DrawSpo2(t)
          \/ DrawTemperature(t)
          \/ Return(t)

SpecGen == InitGen /\ [][NextGen]_vars

----------------------------------------------------------------------------
(* Properties *)

Noon2024 == [day |-> 738886, sec |-> 12 * SecondsPerHour, us |-> 0]

\* a frame with the Timestamp column and the five vital-sign columns, 24 long
Complete24(df) ==
    /\ df.index = 24
    /\ columns(df) = AllColumns
    /\ \A c \in AllColumns : Len(df.data[c]) = 24

\* the call of a caller is under way: entered and not yet left
Running(f) == f.pc \notin {"idle", "returned", "raised"}

\* the caller has drawn at least one column and has at least one to draw
MidDraws(f) == f.pc \in {"systolic", "diastolic", "spo2", "temperature"}

DataErrorShown == \E i \in DOMAIN page : page[i].kind = "error"
MetricsShown == \E i \in DOMAIN page : page[i].kind = "metric"
CheckHasRun == pc \in {"footer", "done"}

\* C1: every invocation of generate_sample_vitals returns a series, and the
\* Timestamp column and each of the five vital-sign columns of every series
\* returned have length 24.
C1_SeriesHas24Rows ==
    /\ \A t \in DOMAIN th : th[t].pc # "raised"
    /\ \A i \in DOMAIN returned :
          /\ returned[i].df.index = 24
          /\ \A c \in {"Timestamp", "Heart Rate (BPM)", "Systolic BP (mmHg)",
                       "Diastolic BP (mmHg)", "SpO2 (%)", "Temperature (F)"} :
                c \in columns(returned[i].df) /\ Len(returned[i].df.data[c]) = 24

C1_Witness == Len(returned) = 2 /\ \A t \in DOMAIN th : th[t].pc = "returned"

\* C2: in every returned series the timestamps are strictly increasing, one
\* hour apart, the last one is the `now` the call read and the first one is
\* that `now` minus 23 hours (2024-01-01T12:00:00 gives 2023-12-31T13:00:00).
C2_TimestampsHourly ==
    \A i \in DOMAIN returned :
        LET ts == returned[i].df.data["Timestamp"]
            now == returned[i].now
        IN  /\ Len(ts) >= 1
            /\ \A k \in 1..Len(ts) : ts[k].sec \in 0..(SecondsPerDay - 1)
            /\ \A k \in 1..(Len(ts) - 1) :
                  /\ Before(ts[k], ts[k + 1])
                  /\ SecondsBetween(ts[k], ts[k + 1]) = 3600
                  /\ ts[k].us = ts[k + 1].us
            /\ ts[Len(ts)] = now
            /\ SecondsBetween(ts[1], now) = 23 * 3600
            /\ ts[1].us = now.us
            /\ (now = Noon2024 => ts[1] = [day |-> 738885, sec |-> 13 * 3600, us |-> 0])

\* a series whose window starts on the day before its `now`
C2_Witness ==
    \E i \in DOMAIN returned :
        /\ returned[i].now = Noon2024
        /\ returned[i].df.data["Timestamp"][1].day = 738885

\* C7: two calls that read the same `now` return series of equal length with
\* identical timestamps, whatever was drawn (their values may differ).
C7_SameNowSameTimestamps ==
    \A i, j \in DOMAIN returned :
        returned[i].now = returned[j].now =>
            /\ returned[i].df.index = returned[j].df.index
            /\ returned[i].df.data["Timestamp"] = returned[j].df.data["Timestamp"]

\* two calls with the same `now` and different heart rates
C7_Witness ==
    \E i, j \in DOMAIN returned :
        /\ i # j
        /\ returned[i].now = returned[j].now
        /\ returned[i].df.data["Heart Rate (BPM)"] # returned[j].df.data["Heart Rate (BPM)"]

\* C8 as stated: under any interleaving neither call touches state shared
\* with the other: while a call is under way the random source it draws from
\* is written by its own statements only (every step that changes np_random
\* while caller t runs is a step of t), and each returns a complete series.
C8_IsolatedCalls ==
    [][/\ \A t \in DOMAIN th :
             (Running(th[t]) /\ np_random' # np_random) => th'[t].pc # th[t].pc
       /\ \A i \in DOMAIN returned' : Complete24(returned'[i].df)]_vars

\* the locals of a caller are set by its own statements only: each is set
\* exactly when the caller is past the line that assigns it
LocalsOwn(f) ==
    LET past(lines) == f.pc \in lines
    IN  /\ (f.now # <<>>) <=> ~past({"idle"})
        /\ (f.time_range # <<>>) <=> ~past({"idle", "time_range"})
        /\ (f.heart_rate # <<>>) <=> ~past({"idle", "time_range", "heart_rate"})
        /\ (f.systolic # <<>>) <=>
              ~past({"idle", "time_range", "heart_rate", "systolic"})
        /\ (f.diastolic # <<>>) <=>
              ~past({"idle", "time_range", "heart_rate", "systolic", "diastolic"})
        /\ (f.spo2 # <<>>) <=> past({"temperature", "return", "returned", "raised"})
        /\ (f.temperature # <<>>) <=> past({"return", "returned", "raised"})
        /\ (f.time_range # <<>>) => f.time_range[Len(f.time_range)] = f.now

\* C8 amended: the concurrent calls share the state of np.random and no
\* other mutable state: every local of a call is written by that call alone,
\* and under any interleaving each call returns a complete 24-row series
\* ending at its own `now`.
C8_SharesOnlyRandomState ==
    /\ \A t \in DOMAIN th : th[t].pc # "raised" /\ LocalsOwn(th[t])
    /\ \A i \in DOMAIN returned :
          /\ Complete24(returned[i].df)
          /\ returned[i].df.data["Timestamp"][24] = returned[i].now

\* the two calls overlap: each has drawn from np.random and each has draws left
C8_Witness == \A t \in Callers : t \in DOMAIN th /\ MidDraws(th[t])

\* C3: latest_vital is a row of the series and no row has a later timestamp.
C3_LatestIsNewest ==
    latest_vital # NoRow =>
        /\ \E i \in 1..vitals_df.index : latest_vital = Row(vitals_df, i)
        /\ \A j \in 1..vitals_df.index :
              ~Before(latest_vital["Timestamp"], vitals_df.data["Timestamp"][j])

C3_Witness == pc = "profile" /\ latest_vital # NoRow /\ vitals_df.index = 24

\* C4 as stated: no metric widget or chart is built or rendered from the
\* series before the data-integrity check has run.
C4_CheckBeforePresentation ==
    (MetricsShown \/ figs # <<>> \/ ChartsRendered > 0) => CheckHasRun

\* The series the script works on is the generator's: from line 59 on
\* vitals_df has 24 rows and all six columns, no statement ends the script
\* with an exception, and the try block reports nothing.  The cases C5 and C6
\* are about (an empty series, a series lacking a vital-sign column) are
\* therefore states no run of the script is in.
GeneratedSeriesComplete ==
    /\ pc \notin {"start", "generate"} => Complete24(vitals_df)
    /\ exc = "none" /\ pc # "crashed"
    /\ ~DataErrorShown

\* what the page shows of the three tables, once rendered
PieShown == {i \in DOMAIN page : page[i].kind = "plotly_chart" /\ page[i].in = "main"}
TableShown == {i \in DOMAIN page : page[i].kind = "table"}

StaticUnchanged ==
    /\ medical_conditions = MedicalConditions
    /\ medication_schedule = MedicationSchedule
    /\ patient_profile = PatientProfile

\* the profile lines are the entries of patient_profile, in order
ProfilePassedThrough ==
    \A i \in DOMAIN page :
        (page[i].kind = "header" /\ page[i].body = "Patient Profile") =>
            /\ Len(page) >= i + Len(patient_profile)
            /\ \A k \in DOMAIN patient_profile :
                  /\ page[i + k].kind = "markdown"
                  /\ page[i + k].body =
                        "**" \o patient_profile[k][1] \o ":** "
                        \o (IF "int" \in DOMAIN patient_profile[k][2]
                            THEN ToString(patient_profile[k][2].int)
                            ELSE patient_profile[k][2].str)
            /\ (Len(page) > i + Len(patient_profile) =>
                   page[i + Len(patient_profile) + 1].kind # "markdown")

\* the medication table has the entries of medication_schedule as its rows
TablePassedThrough ==
    \A i \in TableShown :
        /\ page[i].body.index = Len(medication_schedule)
        /\ \A k \in DOMAIN medication_schedule :
              Row(page[i].body, k) = medication_schedule[k]

\* the names the pie chart is given
PieNames(i) ==
    {page[i].body.data["Condition"][k] : k \in DOMAIN page[i].body.data["Condition"]}

\* C9 as stated: the tables are never mutated and every entry of each table,
\* and nothing else, reaches its rendering call.
C9_AllEntriesPassedThrough ==
    /\ StaticUnchanged
    /\ ProfilePassedThrough
    /\ TablePassedThrough
    /\ \A i \in PieShown :
          /\ PieNames(i) = {medical_conditions[k][1] : k \in DOMAIN medical_conditions}
          /\ Len(page[i].body.data["Condition"]) = Len(medical_conditions)

\* C9 amended: the tables are never mutated; every entry of patient_profile
\* and of medication_schedule, and nothing else, reaches its rendering call;
\* the pie chart is given exactly the conditions whose flag is 1.
C9_StaticPassedThroughPieFiltered ==
    /\ StaticUnchanged
    /\ ProfilePassedThrough
    /\ TablePassedThrough
    /\ \A i \in PieShown :
          /\ PieNames(i) = {medical_conditions[k][1] :
                              k \in {n \in DOMAIN medical_conditions :
                                        medical_conditions[n][2] = 1}}
          /\ Len(page[i].body.data["Condition"]) = Cardinality(PieNames(i))

C9_Witness == pc = "trend" /\ PieShown # {} /\ TableShown # {}

\* C10: the script calls the generator once; the four metrics show the
\* fields of the last row of vitals_df as it is now, and every figure built
\* or rendered holds the columns of that same vitals_df.
C10_OneSeriesEverywhere ==
    /\ n_generate = (IF pc \in {"start", "generate"} THEN 0 ELSE 1)
    /\ \A i \in DOMAIN page :
          page[i].kind = "metric" =>
              LET last == Row(vitals_df, vitals_df.index)
              IN  page[i].body.value =
                     CASE page[i].in = "col1" -> Fmt1(last["Heart Rate (BPM)"]) \o " BPM"
                       [] page[i].in = "col2" ->
                             Fmt1(last["Systolic BP (mmHg)"]) \o "/"
                             \o Fmt1(last["Diastolic BP (mmHg)"]) \o " mmHg"
                       [] page[i].in = "col3" -> Fmt1(last["SpO2 (%)"]) \o " %"
                       [] page[i].in = "col4" -> Fmt1(last["Temperature (F)"]) \o " F"
    /\ \A k \in DOMAIN figs :
          \A c \in DOMAIN figs[k].data : figs[k].data[c] = vitals_df.data[c]
    /\ \A i \in DOMAIN page :
          (page[i].kind = "plotly_chart" /\ page[i].in # "main") =>
              \E k \in DOMAIN figs : page[i].in = ChartSlots[k] /\ page[i].body = figs[k]

C10_Witness == pc = "done" /\ MetricsShown /\ ChartsRendered = 10 /\ Len(figs) = 10

====
